---- MODULE Spec2Model ----
(***************************************************************************)
(* Approval distribution subsystem                                         *)
(* (node/network/approval-distribution/src/lib.rs).                        *)
(*                                                                         *)
(* The model is the `State` object owned by `ApprovalDistribution::run`,   *)
(* one action per event of the run loop.  Every action records in `outbox` *)
(* the messages the handler sent to its collaborators, in order.           *)
(***************************************************************************)
EXTENDS Integers, Sequences, FiniteSets, TLC

VARIABLES
    blocks_by_number,   \* State.blocks_by_number : BlockNumber -> Vec<Hash>
    blocks,             \* State.blocks           : Hash -> BlockEntry
    peer_views,         \* State.peer_views       : PeerId -> View
    running,            \* the loop of `run` has not returned
    outbox,             \* messages sent while handling the last event, in order
    sent,               \* history: the (peer, fingerprint) pairs sent to a connected peer
    ourFinalized,       \* history: {finalized_number of the last OurViewChange}, {} before the first
    received,           \* history: the (peer, fingerprint) pairs a peer sent to us
    last,               \* history: the event handled last
    steps               \* history: the number of events handled

vars == <<blocks_by_number, blocks, peer_views, running, outbox, sent, ourFinalized,
          received, last, steps>>

----------------------------------------------------------------------------
(* Bounds and input domains *)

MaxSteps == 3

Peers == {"p1", "p2"}
Hashes == {"h1", "h2"}
CandidateIndices == {0}
Validators == {5}
Certs == {"cert"}
Signatures == {"sig"}

Local == "Local"

\* The chain the Chain API serves headers of: h1 <- h2, h1's parent untracked.
ParentOf(h) == IF h = "h2" THEN "h1" ELSE "h0"
NumberOf(h) == IF h = "h2" THEN 2 ELSE 1

EmptyMap == [x \in {} |-> 0]
Put(f, k, v) == [x \in (DOMAIN f) \cup {k} |-> IF x = k THEN v ELSE f[x]]
Remove(f, k) == [x \in (DOMAIN f) \ {k} |-> f[x]]

----------------------------------------------------------------------------
(* Data *)

AssignmentFp(h, c, v) == <<"Assignment", h, c, v>>
ApprovalFp(h, c, v) == <<"Approval", h, c, v>>
Fingerprints ==
    {AssignmentFp(h, c, v) : h \in Hashes, c \in CandidateIndices, v \in Validators}
    \cup {ApprovalFp(h, c, v) : h \in Hashes, c \in CandidateIndices, v \in Validators}

Assigned(cert) == [tag |-> "Assigned", cert |-> cert, signature |-> "none"]
Approved(cert, signature) == [tag |-> "Approved", cert |-> cert, signature |-> signature]

\* (IndirectAssignmentCert, CandidateIndex) as carried by the wire batches
Assignments ==
    [block_hash : Hashes, validator : Validators, cert : Certs,
     candidate_index : CandidateIndices]
\* IndirectSignedApprovalVote
Votes ==
    [block_hash : Hashes, candidate_index : CandidateIndices,
     validator : Validators, signature : Signatures]

FpOfAssignment(a) == AssignmentFp(a.block_hash, a.candidate_index, a.validator)
FpOfVote(vote) == ApprovalFp(vote.block_hash, vote.candidate_index, vote.validator)

\* finalized numbers a view can carry: none yet, or the number of a block
Numbers == {0} \cup {NumberOf(h) : h \in Hashes}
\* views: no head or one head
Views == [heads : {{}} \cup {{h} : h \in Hashes}, finalized_number : Numbers]
DefaultView == [heads |-> {}, finalized_number |-> 0]

\* a new entry with a CandidateEntry per candidate of the block
NewBlockEntry_WithCandidates(number, parent_hash) ==
    [known_by |-> EmptyMap, number |-> number, parent_hash |-> parent_hash,
     knowledge |-> {},
     candidates |-> [c \in CandidateIndices |-> [approvals |-> EmptyMap]]]

\* lines 187-193: the BlockEntry handle_new_blocks inserts
NewBlockEntry(number, parent_hash) ==
    [known_by |-> EmptyMap, number |-> number, parent_hash |-> parent_hash,
     knowledge |-> {}, candidates |-> EmptyMap]

\* Reputation changes
Rep(value, reason) == [value |-> value, reason |-> reason]
NoRep == Rep(0, "none")
COST_UNEXPECTED_MESSAGE == Rep(-100, "Peer sent an out-of-view assignment or approval")
COST_DUPLICATE_MESSAGE == Rep(-100, "Peer sent identical messages")
COST_ASSIGNMENT_TOO_FAR_IN_THE_FUTURE == Rep(-10, "The vote was valid but too far in the future")
COST_INVALID_MESSAGE == Rep(-500, "The vote was bad")
BENEFIT_VALID_MESSAGE == Rep(10, "Peer sent a valid message")
BENEFIT_VALID_MESSAGE_FIRST == Rep(15, "Valid message with new information")

\* Outbound messages
ReportPeer(p, rep) ==
    [type |-> "ReportPeer", peers |-> {p}, rep |-> rep, kind |-> "none",
     assignments |-> {}, approvals |-> {}]
SendAssignments(peers, batch) ==
    [type |-> "SendValidationMessage", peers |-> peers, rep |-> NoRep,
     kind |-> "Assignments", assignments |-> batch, approvals |-> {}]
SendApprovals(peers, batch) ==
    [type |-> "SendValidationMessage", peers |-> peers, rep |-> NoRep,
     kind |-> "Approvals", assignments |-> {}, approvals |-> batch]
CheckAndImportAssignment(a) ==
    [type |-> "CheckAndImportAssignment", peers |-> {}, rep |-> NoRep,
     kind |-> "Assignments", assignments |-> {a}, approvals |-> {}]
CheckAndImportApproval(vote) ==
    [type |-> "CheckAndImportApproval", peers |-> {}, rep |-> NoRep,
     kind |-> "Approvals", assignments |-> {}, approvals |-> {vote}]
BlockHeaderRequest(h) ==
    [type |-> "BlockHeader", peers |-> {}, rep |-> NoRep, kind |-> h,
     assignments |-> {}, approvals |-> {}]

\* What a handler call leaves behind: the block map, the messages it sent, and
\* whether it consumed a reply of a collaborator.
Outcome(bl, out, asked) == [blocks |-> bl, out |-> out, asked |-> asked]

----------------------------------------------------------------------------
(* Unification *)

RECURSIVE InterestingBlocks(_, _, _, _, _)
InterestingBlocks(entries, peer_id, view_finalized_number, block, to_send) ==
    IF block \notin DOMAIN entries
    THEN [entries |-> entries, to_send |-> to_send]
    ELSE IF ~(entries[block].number >= view_finalized_number)
    THEN [entries |-> entries, to_send |-> to_send]
    ELSE IF peer_id \in DOMAIN entries[block].known_by
    THEN [entries |-> entries, to_send |-> to_send]
    ELSE InterestingBlocks(
            [entries EXCEPT ![block].known_by =
                Put(@, peer_id, entries[block].knowledge)],
            peer_id, view_finalized_number,
            entries[block].parent_hash, to_send \cup {block})

RECURSIVE WalkHeads(_, _, _, _, _)
WalkHeads(entries, peer_id, view_finalized_number, heads, to_send) ==
    IF heads = {}
    THEN [entries |-> entries, to_send |-> to_send]
    ELSE LET head == CHOOSE h \in heads : TRUE
             r == InterestingBlocks(entries, peer_id, view_finalized_number,
                                    head, to_send)
         IN WalkHeads(r.entries, peer_id, view_finalized_number,
                      heads \ {head}, r.to_send)

\* The assignments batch of send_gossip_messages_to_peer
GossipAssignments(entries, to_send) ==
    UNION { UNION { { [block_hash |-> b, validator |-> v,
                       cert |-> entries[b].candidates[c].approvals[v].cert,
                       candidate_index |-> c]
                      : v \in { w \in DOMAIN entries[b].candidates[c].approvals :
                                  entries[b].candidates[c].approvals[w].tag = "Assigned" } }
                    : c \in DOMAIN entries[b].candidates }
            : b \in to_send \cap DOMAIN entries }

\* The approvals batch of send_gossip_messages_to_peer
GossipApprovals(entries, to_send) ==
    UNION { UNION { { [block_hash |-> b, candidate_index |-> c, validator |-> v,
                       signature |-> entries[b].candidates[c].approvals[v].signature]
                      : v \in { w \in DOMAIN entries[b].candidates[c].approvals :
                                  entries[b].candidates[c].approvals[w].tag = "Approved" } }
                    : c \in DOMAIN entries[b].candidates }
            : b \in to_send \cap DOMAIN entries }

send_gossip_messages_to_peer(entries, peer_id, to_send) ==
    LET assignments == GossipAssignments(entries, to_send)
        approvals == GossipApprovals(entries, to_send)
    IN (IF assignments # {} THEN <<SendAssignments({peer_id}, assignments)>> ELSE <<>>)
       \o (IF approvals # {} THEN <<SendApprovals({peer_id}, approvals)>> ELSE <<>>)

unify_with_peer(entries, peer_id, view) ==
    LET r == WalkHeads(entries, peer_id, view.finalized_number, view.heads, {})
    IN Outcome(r.entries,
               send_gossip_messages_to_peer(r.entries, peer_id, r.to_send),
               FALSE)

----------------------------------------------------------------------------
(* Import and circulation *)

\* a duplicate check that never finds the fingerprint
PeerAlreadyKnows_Never(entry, peer_id, fingerprint) == FALSE

\* lines 329-334 / 481-486: the peer's entry is occupied and holds the fingerprint
PeerAlreadyKnows(entry, peer_id, fingerprint) ==
    /\ peer_id \in DOMAIN entry.known_by
    /\ fingerprint \in entry.known_by[peer_id]

\* entry.known_by.entry(peer).or_default().known_messages.insert(fingerprint)
AddKnown(entry, peer_id, fingerprint) ==
    [entry EXCEPT !.known_by =
        Put(@, peer_id,
            (IF peer_id \in DOMAIN @ THEN @[peer_id] ELSE {}) \cup {fingerprint})]

\* entry.knowledge.known_messages.insert(fingerprint)
AddKnowledge(entry, fingerprint) ==
    [entry EXCEPT !.knowledge = @ \cup {fingerprint}]

\* a circulation that does not leave out the source peer
CirculationPeers_All(pv, source) == DOMAIN pv

\* the recipients of a circulation: every key of peer_views but the source
CirculationPeers(pv, source) == {p \in DOMAIN pv : p # source}

\* lines 431-437 / 590-596
RECURSIVE AddKnownAll(_, _, _)
AddKnownAll(entry, peers, fingerprint) ==
    IF peers = {} THEN entry
    ELSE LET p == CHOOSE q \in peers : TRUE
         IN AddKnownAll(AddKnown(entry, p, fingerprint), peers \ {p}, fingerprint)

\* lines 393-409: Assigned unless a state is set already; no candidate, no change
SetAssigned(entry, candidate_index, validator_index, cert) ==
    IF candidate_index \in DOMAIN entry.candidates
    THEN IF validator_index \in DOMAIN entry.candidates[candidate_index].approvals
         THEN entry
         ELSE [entry EXCEPT !.candidates[candidate_index].approvals =
                  Put(@, validator_index, Assigned(cert))]
    ELSE entry

\* lines 539-568: approvals.remove(validator), re-inserted as Approved only
\* when the removed state was Assigned
SetApproved(entry, candidate_index, validator_index, signature) ==
    IF candidate_index \in DOMAIN entry.candidates
    THEN LET approvals == entry.candidates[candidate_index].approvals
         IN IF validator_index \in DOMAIN approvals
            THEN IF approvals[validator_index].tag = "Assigned"
                 THEN [entry EXCEPT !.candidates[candidate_index].approvals =
                          [@ EXCEPT ![validator_index] =
                              Approved(approvals[validator_index].cert, signature)]]
                 ELSE [entry EXCEPT !.candidates[candidate_index].approvals =
                          Remove(@, validator_index)]
            ELSE entry
    ELSE entry

\* lines 393-437: candidate state, then circulation
CirculateAssignment(bl, pv, source, a, entry, out, asked) ==
    LET fingerprint == FpOfAssignment(a)
        entry1 == SetAssigned(entry, a.candidate_index, a.validator, a.cert)
        peers == CirculationPeers(pv, source)
    IN Outcome([bl EXCEPT ![a.block_hash] = AddKnownAll(entry1, peers, fingerprint)],
               Append(out, SendAssignments(peers, {a})),
               asked)

\* lines 539-596: candidate state, then circulation
CirculateApproval(bl, pv, source, vote, entry, out, asked) ==
    LET fingerprint == FpOfVote(vote)
        entry1 == SetApproved(entry, vote.candidate_index, vote.validator, vote.signature)
        peers == CirculationPeers(pv, source)
    IN Outcome([bl EXCEPT ![vote.block_hash] = AddKnownAll(entry1, peers, fingerprint)],
               Append(out, SendApprovals(peers, {vote})),
               asked)

\* a local assignment that is circulated without being recorded
RecordLocalAssignment_Unrecorded(entry, fingerprint) == entry

\* line 390: a locally sourced assignment is recorded without any check
RecordLocalAssignment(entry, fingerprint) == AddKnowledge(entry, fingerprint)

\* line 536: a locally sourced approval is recorded without any check
RecordLocalApproval(entry, fingerprint) == AddKnowledge(entry, fingerprint)

\* an accepted message recorded for the peer only
RecordAccepted_PeerOnly(entry, peer_id, fingerprint) ==
    AddKnown(entry, peer_id, fingerprint)

\* lines 373-378 / 523-528: an accepted message of a peer is recorded
RecordAccepted(entry, peer_id, fingerprint) ==
    AddKnown(AddKnowledge(entry, fingerprint), peer_id, fingerprint)

\* a message that is never taken as validated already
AlreadyValidated_Never(entry, fingerprint) == FALSE

\* lines 342 / 493: the fingerprint is in our knowledge already
AlreadyValidated(entry, fingerprint) == fingerprint \in entry.knowledge

\* a peer without a known_by entry that is not charged
ReportUnknownPeer_Free(entry, source) == <<>>

\* lines 336-338 / 488-490: the Vacant arm charges the peer and goes on
ReportUnknownPeer(entry, source) ==
    IF source \in DOMAIN entry.known_by
    THEN <<>>
    ELSE <<ReportPeer(source, COST_UNEXPECTED_MESSAGE)>>

\* a rejected message that is noted as known by its sender
Rejected_KnownBySender(bl, block_hash, source, fingerprint) ==
    [bl EXCEPT ![block_hash] = AddKnown(bl[block_hash], source, fingerprint)]

\* lines 380-387 / 530-533: a rejected message returns, nothing is recorded
Rejected(bl, block_hash, source, fingerprint) == bl

\* a dropped reply charged to the peer
ReplyDropped_Charged(bl, source, out) ==
    Outcome(bl, Append(out, ReportPeer(source, COST_INVALID_MESSAGE)), TRUE)

\* lines 359-365 / 508-516: the reply channel was dropped, the import returns
ReplyDropped(bl, source, out) == Outcome(bl, out, TRUE)

\* AssignmentCheckResult, or the reply channel dropped
AssignmentReplies == {"Accepted", "AcceptedDuplicate", "TooFarInFuture", "Bad", "Dropped"}
\* ApprovalCheckResult, or the reply channel dropped
ApprovalReplies == {"Accepted", "Bad", "Dropped"}

import_and_circulate_assignment(bl, pv, source, a, result) ==
    LET block_hash == a.block_hash
        fingerprint == FpOfAssignment(a)
    IN IF block_hash \notin DOMAIN bl
       THEN Outcome(bl,
                    IF source # Local
                    THEN <<ReportPeer(source, COST_UNEXPECTED_MESSAGE)>> ELSE <<>>,
                    FALSE)
       ELSE LET entry == bl[block_hash]
                out1 == ReportUnknownPeer(entry, source)
                out2 == Append(out1, CheckAndImportAssignment(a))
            IN IF source = Local
               THEN CirculateAssignment(bl, pv, source, a,
                        RecordLocalAssignment(entry, fingerprint), <<>>, FALSE)
               ELSE IF PeerAlreadyKnows(entry, source, fingerprint)
               THEN Outcome(bl, <<ReportPeer(source, COST_DUPLICATE_MESSAGE)>>, FALSE)
               ELSE IF AlreadyValidated(entry, fingerprint)
               THEN Outcome([bl EXCEPT ![block_hash] = AddKnown(entry, source, fingerprint)],
                            Append(out1, ReportPeer(source, BENEFIT_VALID_MESSAGE)),
                            FALSE)
               ELSE IF result = "Dropped"
               THEN ReplyDropped(bl, source, out2)
               ELSE IF result = "TooFarInFuture"
               THEN Outcome(Rejected(bl, block_hash, source, fingerprint),
                            Append(out2, ReportPeer(source, COST_ASSIGNMENT_TOO_FAR_IN_THE_FUTURE)),
                            TRUE)
               ELSE IF result = "Bad"
               THEN Outcome(Rejected(bl, block_hash, source, fingerprint),
                            Append(out2, ReportPeer(source, COST_INVALID_MESSAGE)), TRUE)
               ELSE CirculateAssignment(bl, pv, source, a,
                        RecordAccepted(entry, source, fingerprint),
                        IF result = "Accepted"
                        THEN Append(out2, ReportPeer(source, BENEFIT_VALID_MESSAGE_FIRST))
                        ELSE out2,
                        TRUE)

\* a precedence check that always passes
AssignmentKnown_Always(entry, assignment_fingerprint) == TRUE

\* line 475: the matching assignment is in our knowledge
AssignmentKnown(entry, assignment_fingerprint) ==
    assignment_fingerprint \in entry.knowledge

import_and_circulate_approval(bl, pv, source, vote, result) ==
    LET block_hash == vote.block_hash
        fingerprint == FpOfVote(vote)
        assignment_fingerprint ==
            AssignmentFp(vote.block_hash, vote.candidate_index, vote.validator)
    IN IF ~(block_hash \in DOMAIN bl
            /\ vote.candidate_index \in DOMAIN bl[block_hash].candidates)
       THEN Outcome(bl,
                    IF source # Local
                    THEN <<ReportPeer(source, COST_UNEXPECTED_MESSAGE)>> ELSE <<>>,
                    FALSE)
       ELSE LET entry == bl[block_hash]
                out1 == ReportUnknownPeer(entry, source)
                out2 == Append(out1, CheckAndImportApproval(vote))
            IN IF source = Local
               THEN CirculateApproval(bl, pv, source, vote,
                        RecordLocalApproval(entry, fingerprint), <<>>, FALSE)
               ELSE IF ~AssignmentKnown(entry, assignment_fingerprint)
               THEN Outcome(bl, <<ReportPeer(source, COST_UNEXPECTED_MESSAGE)>>, FALSE)
               ELSE IF PeerAlreadyKnows(entry, source, fingerprint)
               THEN Outcome(bl, <<ReportPeer(source, COST_DUPLICATE_MESSAGE)>>, FALSE)
               ELSE IF AlreadyValidated(entry, fingerprint)
               THEN Outcome([bl EXCEPT ![block_hash] = AddKnown(entry, source, fingerprint)],
                            Append(out1, ReportPeer(source, BENEFIT_VALID_MESSAGE)),
                            FALSE)
               ELSE IF result = "Dropped"
               THEN ReplyDropped(bl, source, out2)
               ELSE IF result = "Bad"
               THEN Outcome(Rejected(bl, block_hash, source, fingerprint),
                            Append(out2, ReportPeer(source, COST_INVALID_MESSAGE)), TRUE)
               ELSE CirculateApproval(bl, pv, source, vote,
                        RecordAccepted(entry, source, fingerprint),
                        Append(out2, ReportPeer(source, BENEFIT_VALID_MESSAGE_FIRST)),
                        TRUE)

NoReply == "none"

\* process_incoming_peer_message, Assignments arm: one import per element
RECURSIVE ProcessAssignments(_, _, _, _, _, _)
ProcessAssignments(bl, pv, peer_id, batch, replies, out) ==
    IF batch = <<>>
    THEN Outcome(bl, out, FALSE)
    ELSE LET r == import_and_circulate_assignment(bl, pv, peer_id, Head(batch), Head(replies))
         IN ProcessAssignments(r.blocks, pv, peer_id, Tail(batch), Tail(replies),
                               out \o r.out)

\* process_incoming_peer_message, Approvals arm
RECURSIVE ProcessApprovals(_, _, _, _, _, _)
ProcessApprovals(bl, pv, peer_id, batch, replies, out) ==
    IF batch = <<>>
    THEN Outcome(bl, out, FALSE)
    ELSE LET r == import_and_circulate_approval(bl, pv, peer_id, Head(batch), Head(replies))
         IN ProcessApprovals(r.blocks, pv, peer_id, Tail(batch), Tail(replies),
                             out \o r.out)

----------------------------------------------------------------------------
(* New blocks, view changes *)

\* BlockApprovalMeta, the fields the handler reads
Meta(h) == [hash |-> h, number |-> NumberOf(h)]

\* request_parent_hash answers Some(parent_hash) or None
HeaderReplies == {"Header", "Failed"}

\* a hash pushed twice under its number
ListHash_Twice(bbn, number, hash) ==
    Put(bbn, number,
        (IF number \in DOMAIN bbn THEN bbn[number] ELSE <<>>) \o <<hash, hash>>)

\* line 194: blocks_by_number.entry(number).or_default().push(hash)
ListHash(bbn, number, hash) ==
    Put(bbn, number,
        Append(IF number \in DOMAIN bbn THEN bbn[number] ELSE <<>>, hash))

\* handle_new_blocks, the loop over the metas (lines 174-195)
RECURSIVE InsertMetas(_, _, _, _, _)
InsertMetas(bl, bbn, metas, replies, out) ==
    IF metas = <<>>
    THEN [blocks |-> bl, blocks_by_number |-> bbn, out |-> out]
    ELSE LET meta == Head(metas)
         IN IF meta.hash \in DOMAIN bl
            THEN InsertMetas(bl, bbn, Tail(metas), Tail(replies), out)
            ELSE IF Head(replies) = "Failed"
            THEN InsertMetas(bl, bbn, Tail(metas), Tail(replies),
                             Append(out, BlockHeaderRequest(meta.hash)))
            ELSE InsertMetas(
                    Put(bl, meta.hash, NewBlockEntry(meta.number, ParentOf(meta.hash))),
                    ListHash(bbn, meta.number, meta.hash),
                    Tail(metas), Tail(replies),
                    Append(out, BlockHeaderRequest(meta.hash)))

\* handle_new_blocks, the loop over peer_views (lines 196-210)
RECURSIVE UnifyPeers(_, _, _, _, _)
UnifyPeers(bl, pv, peers, hashes, out) ==
    IF peers = {}
    THEN Outcome(bl, out, FALSE)
    ELSE LET peer_id == CHOOSE p \in peers : TRUE
             view_intersection ==
                 [heads |-> pv[peer_id].heads \cap hashes,
                  finalized_number |-> pv[peer_id].finalized_number]
             r == unify_with_peer(bl, peer_id, view_intersection)
         IN UnifyPeers(r.blocks, pv, peers \ {peer_id}, hashes, out \o r.out)

handle_new_blocks(bl, bbn, pv, metas, replies) ==
    LET hashes == {metas[i].hash : i \in 1..Len(metas)}
        ins == InsertMetas(bl, bbn, metas, replies, <<>>)
        uni == UnifyPeers(ins.blocks, pv, DOMAIN pv, hashes, ins.out)
    IN [blocks |-> uni.blocks, blocks_by_number |-> ins.blocks_by_number,
        out |-> uni.out]

\* the hashes listed under the numbers 0..=finalized_number
RangeHashes(bbn, finalized_number) ==
    UNION { {bbn[n][i] : i \in 1..Len(bbn[n])}
            : n \in {m \in DOMAIN bbn : m <= finalized_number} }

\* handle_peer_view_change, the cleanup (lines 270-279)
Cleanup(bl, bbn, peer_id, finalized_number) ==
    [h \in DOMAIN bl |->
        IF h \in RangeHashes(bbn, finalized_number)
        THEN [bl[h] EXCEPT !.known_by = Remove(@, peer_id)]
        ELSE bl[h]]

handle_peer_view_change(bl, bbn, peer_id, view) ==
    LET r == unify_with_peer(bl, peer_id, view)
    IN Outcome(Cleanup(r.blocks, bbn, peer_id, view.finalized_number), r.out, FALSE)

\* a split at finalized_number itself
KeptNumbers_Inclusive(bbn, view) ==
    {n \in DOMAIN bbn : n >= view.finalized_number}

\* handle_our_view_change: the numbers split_off keeps
KeptNumbers(bbn, view) ==
    {n \in DOMAIN bbn : n >= view.finalized_number + 1}

handle_our_view_change(bl, bbn, view) ==
    LET kept == KeptNumbers(bbn, view)
        old_blocks == RangeHashes(bbn, view.finalized_number)
    IN [blocks |-> [h \in (DOMAIN bl) \ old_blocks |-> bl[h]],
        blocks_by_number |-> [n \in kept |-> bbn[n]]]

----------------------------------------------------------------------------
(* History *)

FpsOf(m) ==
    {FpOfAssignment(a) : a \in m.assignments} \cup {FpOfVote(v) : v \in m.approvals}

\* the number of SendValidationMessage in `out` that carry `fingerprint` to `p`
SendsOf(out, p, fingerprint) ==
    Cardinality({i \in 1..Len(out) :
                    /\ out[i].type = "SendValidationMessage"
                    /\ p \in out[i].peers
                    /\ fingerprint \in FpsOf(out[i])})

Record(out) ==
    sent \cup {pf \in Peers \X Fingerprints : SendsOf(out, pf[1], pf[2]) > 0}

----------------------------------------------------------------------------
(* The run loop: one action per event *)

PeerConnected(peer_id) ==
    /\ running
    /\ steps < MaxSteps
    /\ steps' = steps + 1
    /\ last' = "PeerConnected"
    /\ UNCHANGED received
    /\ peer_views' = IF peer_id \in DOMAIN peer_views
                     THEN peer_views
                     ELSE Put(peer_views, peer_id, DefaultView)
    /\ outbox' = <<>>
    /\ UNCHANGED <<blocks_by_number, blocks, running, sent, ourFinalized>>

\* a disconnect that forgets the view of the peer only
PeerDisconnected_ViewOnly(peer_id) ==
    /\ running
    /\ steps < MaxSteps
    /\ steps' = steps + 1
    /\ last' = "PeerDisconnected"
    /\ peer_views' = Remove(peer_views, peer_id)
    /\ outbox' = <<>>
    /\ sent' = {pf \in sent : pf[1] # peer_id}
    /\ UNCHANGED <<blocks_by_number, blocks, running, ourFinalized, received>>

PeerDisconnected(peer_id) ==
    /\ running
    /\ steps < MaxSteps
    /\ steps' = steps + 1
    /\ last' = "PeerDisconnected"
    /\ UNCHANGED received
    /\ peer_views' = Remove(peer_views, peer_id)
    /\ blocks' = [h \in DOMAIN blocks |->
                    [blocks[h] EXCEPT !.known_by = Remove(@, peer_id)]]
    /\ outbox' = <<>>
    /\ sent' = {pf \in sent : pf[1] # peer_id}
    /\ UNCHANGED <<blocks_by_number, running, ourFinalized>>

PeerViewChange(peer_id, view) ==
    /\ running
    /\ steps < MaxSteps
    /\ steps' = steps + 1
    /\ last' = "PeerViewChange"
    /\ UNCHANGED received
    /\ LET r == handle_peer_view_change(blocks, blocks_by_number, peer_id, view)
       IN /\ blocks' = r.blocks
          /\ outbox' = r.out
          /\ sent' = Record(r.out)
    /\ peer_views' = Put(peer_views, peer_id, view)
    /\ UNCHANGED <<blocks_by_number, running, ourFinalized>>

OurViewChange(view) ==
    /\ running
    /\ steps < MaxSteps
    /\ steps' = steps + 1
    /\ last' = "OurViewChange"
    /\ UNCHANGED received
    /\ LET r == handle_our_view_change(blocks, blocks_by_number, view)
       IN /\ blocks' = r.blocks
          /\ blocks_by_number' = r.blocks_by_number
    /\ outbox' = <<>>
    /\ ourFinalized' = {view.finalized_number}
    /\ UNCHANGED <<peer_views, running, sent>>

PeerAssignments(peer_id, batch, replies) ==
    /\ running
    /\ steps < MaxSteps
    /\ steps' = steps + 1
    /\ last' = "PeerAssignments"
    /\ received' = received \cup {<<peer_id, FpOfAssignment(batch[i])>> : i \in 1..Len(batch)}
    /\ LET r == ProcessAssignments(blocks, peer_views, peer_id, batch, replies, <<>>)
       IN /\ blocks' = r.blocks
          /\ outbox' = r.out
          /\ sent' = Record(r.out)
          /\ UNCHANGED <<blocks_by_number, peer_views, running, ourFinalized>>

PeerApprovals(peer_id, batch, replies) ==
    /\ running
    /\ steps < MaxSteps
    /\ steps' = steps + 1
    /\ last' = "PeerApprovals"
    /\ received' = received \cup {<<peer_id, FpOfVote(batch[i])>> : i \in 1..Len(batch)}
    /\ LET r == ProcessApprovals(blocks, peer_views, peer_id, batch, replies, <<>>)
       IN /\ blocks' = r.blocks
          /\ outbox' = r.out
          /\ sent' = Record(r.out)
          /\ UNCHANGED <<blocks_by_number, peer_views, running, ourFinalized>>

NewBlocks(metas, replies) ==
    /\ running
    /\ steps < MaxSteps
    /\ steps' = steps + 1
    /\ last' = "NewBlocks"
    /\ UNCHANGED received
    /\ LET r == handle_new_blocks(blocks, blocks_by_number, peer_views, metas, replies)
       IN /\ blocks' = r.blocks
          /\ blocks_by_number' = r.blocks_by_number
          /\ outbox' = r.out
          /\ sent' = Record(r.out)
          /\ UNCHANGED <<peer_views, running, ourFinalized>>

DistributeAssignment(a) ==
    /\ running
    /\ steps < MaxSteps
    /\ steps' = steps + 1
    /\ last' = "DistributeAssignment"
    /\ UNCHANGED received
    /\ LET r == import_and_circulate_assignment(blocks, peer_views, Local, a, NoReply)
       IN /\ blocks' = r.blocks
          /\ outbox' = r.out
          /\ sent' = Record(r.out)
    /\ UNCHANGED <<blocks_by_number, peer_views, running, ourFinalized>>

DistributeApproval(vote) ==
    /\ running
    /\ steps < MaxSteps
    /\ steps' = steps + 1
    /\ last' = "DistributeApproval"
    /\ UNCHANGED received
    /\ LET r == import_and_circulate_approval(blocks, peer_views, Local, vote, NoReply)
       IN /\ blocks' = r.blocks
          /\ outbox' = r.out
          /\ sent' = Record(r.out)
    /\ UNCHANGED <<blocks_by_number, peer_views, running, ourFinalized>>

\* ActiveLeaves and BlockFinalized are ignored
IgnoredSignal(signal) ==
    /\ running
    /\ steps < MaxSteps
    /\ steps' = steps + 1
    /\ last' = signal
    /\ UNCHANGED received
    /\ outbox' = <<>>
    /\ UNCHANGED <<blocks_by_number, blocks, peer_views, running, sent, ourFinalized>>

\* a Conclude that is ignored like the other signals
Stop_KeepsRunning(cause) ==
    /\ running
    /\ steps < MaxSteps
    /\ steps' = steps + 1
    /\ last' = cause
    /\ outbox' = <<>>
    /\ UNCHANGED <<blocks_by_number, blocks, peer_views, running, sent, ourFinalized,
                   received>>

\* Conclude, or ctx.recv() fails: `run` returns
Stop(cause) ==
    /\ running
    /\ steps < MaxSteps
    /\ steps' = steps + 1
    /\ last' = cause
    /\ UNCHANGED received
    /\ running' = FALSE
    /\ outbox' = <<>>
    /\ UNCHANGED <<blocks_by_number, blocks, peer_views, sent, ourFinalized>>

\* Inputs: our view matters by its finalized_number only; a peer message
\* carries one assignment or one vote, NewBlocks one or two metas
OurViews == {view \in Views : view.heads = {}}
AssignmentBatches == {<<a>> : a \in Assignments}
ApprovalBatches == {<<v>> : v \in Votes}
MetaBatches ==
    {<<Meta(h)>> : h \in Hashes} \cup {<<Meta(h), Meta(g)>> : h \in Hashes, g \in Hashes}
\* one reply of the collaborator per element
RepliesFor(batch, replies) == [1..Len(batch) -> replies]

Init ==
    /\ blocks_by_number = EmptyMap
    /\ blocks = EmptyMap
    /\ peer_views = EmptyMap
    /\ running = TRUE
    /\ outbox = <<>>
    /\ sent = {}
    /\ ourFinalized = {}
    /\ received = {}
    /\ last = "Init"
    /\ steps = 0

Next ==
    \/ \E p \in Peers : PeerConnected(p)
    \/ \E p \in Peers : PeerDisconnected(p)
    \/ \E p \in Peers, view \in Views : PeerViewChange(p, view)
    \/ \E view \in OurViews : OurViewChange(view)
    \/ \E p \in Peers, batch \in AssignmentBatches :
         \E replies \in RepliesFor(batch, AssignmentReplies) :
            PeerAssignments(p, batch, replies)
    \/ \E p \in Peers, batch \in ApprovalBatches :
         \E replies \in RepliesFor(batch, ApprovalReplies) :
            PeerApprovals(p, batch, replies)
    \/ \E metas \in MetaBatches :
         \E replies \in RepliesFor(metas, HeaderReplies) : NewBlocks(metas, replies)
    \/ \E a \in Assignments : DistributeAssignment(a)
    \/ \E vote \in Votes : DistributeApproval(vote)
    \/ \E signal \in {"ActiveLeaves", "BlockFinalized"} : IgnoredSignal(signal)
    \/ \E cause \in {"Conclude", "ChannelClosed"} : Stop(cause)

Spec == Init /\ [][Next]_vars

\* States in which tracked blocks carry a CandidateEntry per candidate, as in
\* the scenarios S1-S4 of the specification (block tracked, candidates[0]
\* empty): the chain of Hashes tracked, or nothing tracked as in Init.
SeededBlocks(tracked) ==
    [h \in tracked |->
        [NewBlockEntry(NumberOf(h), ParentOf(h)) EXCEPT
            !.candidates = [c \in CandidateIndices |-> [approvals |-> EmptyMap]]]]

SeededIndex(tracked) ==
    [n \in {NumberOf(h) : h \in tracked} |->
        <<CHOOSE h \in tracked : NumberOf(h) = n>>]

SeededInit ==
    /\ \E tracked \in {{}, Hashes} :
          /\ blocks = SeededBlocks(tracked)
          /\ blocks_by_number = SeededIndex(tracked)
    /\ peer_views = EmptyMap
    /\ running = TRUE
    /\ outbox = <<>>
    /\ sent = {}
    /\ ourFinalized = {}
    /\ received = {}
    /\ last = "Init"
    /\ steps = 0

SpecSeeded == SeededInit /\ [][Next]_vars

----------------------------------------------------------------------------
(* Properties *)

IsSend(m) == m.type = "SendValidationMessage"
NumSends(out) == Cardinality({i \in 1..Len(out) : IsSend(out[i])})
IsReport(m, p, rep) == m.type = "ReportPeer" /\ m.peers = {p} /\ m.rep = rep
OnlyReport(out, p, rep) == Len(out) = 1 /\ IsReport(out[1], p, rep)
BlocksOf(m) ==
    {a.block_hash : a \in m.assignments} \cup {v.block_hash : v \in m.approvals}
ApprovalsOf(entry, c) == entry.candidates[c].approvals

\* C1: every fingerprint in a block's known_by[peer] is in the block's knowledge
KnownBySubsetOfKnowledge ==
    \A b \in DOMAIN blocks : \A p \in DOMAIN blocks[b].known_by :
        blocks[b].known_by[p] \subseteq blocks[b].knowledge

\* a circulation has just recorded its fingerprint for a recipient
KnownByWitness ==
    /\ NumSends(outbox) = 1
    /\ \E b \in DOMAIN blocks : \E p \in DOMAIN blocks[b].known_by :
          /\ p \in outbox[Len(outbox)].peers
          /\ FpsOf(outbox[Len(outbox)]) \subseteq blocks[b].known_by[p]
          /\ FpsOf(outbox[Len(outbox)]) # {}

SentAtMostOnce ==
    [][\A pf \in Peers \X Fingerprints :
          SendsOf(outbox', pf[1], pf[2]) <= (IF pf \in sent THEN 0 ELSE 1)]_vars

RECURSIVE OnChain(_, _, _, _)
OnChain(bl, from, target, finalized_number) ==
    /\ from \in DOMAIN bl
    /\ bl[from].number >= finalized_number
    /\ \/ from = target
       \/ OnChain(bl, bl[from].parent_hash, target, finalized_number)

InViewOf(bl, pv, p, b) ==
    /\ p \in DOMAIN pv
    /\ \E head \in pv[p].heads : OnChain(bl, head, b, pv[p].finalized_number)

\* C4: a message about block B goes to peer p only if B is tracked and p had a
\* known_by entry for B before the send or B is in p's view
SendsOnlyInView ==
    [][\A i \in 1..Len(outbox') :
          IsSend(outbox'[i])
          => \A p \in outbox'[i].peers : \A b \in BlocksOf(outbox'[i]) :
                /\ b \in DOMAIN blocks'
                /\ \/ b \in DOMAIN blocks /\ p \in DOMAIN blocks[b].known_by
                   \/ InViewOf(blocks', peer_views', p, b)]_vars

\* the reply channel answered Accepted to the validation of p's message
AcceptedFirst(out, p) ==
    \E i \in 1..Len(out) : IsReport(out[i], p, BENEFIT_VALID_MESSAGE_FIRST)

\* C5: after p's message was validated with Accepted, the import sent exactly
\* one SendValidationMessage, and importing the same message of p again sends
\* ReportPeer(p, COST_DUPLICATE_MESSAGE) and nothing else, whatever the reply
\* channel would answer, and leaves the blocks unchanged (the import touches
\* neither blocks_by_number nor peer_views)
DedupLaw ==
    [][\A p \in Peers :
         AcceptedFirst(outbox', p)
         => /\ \A a \in Assignments :
                 PeerAssignments(p, <<a>>, <<"Accepted">>)
                 => /\ NumSends(outbox') = 1
                    /\ \A reply \in AssignmentReplies :
                         LET again == ProcessAssignments(blocks', peer_views', p,
                                                         <<a>>, <<reply>>, <<>>)
                         IN /\ OnlyReport(again.out, p, COST_DUPLICATE_MESSAGE)
                            /\ again.blocks = blocks'
            /\ \A vote \in Votes :
                 PeerApprovals(p, <<vote>>, <<"Accepted">>)
                 => /\ NumSends(outbox') = 1
                    /\ \A reply \in ApprovalReplies :
                         LET again == ProcessApprovals(blocks', peer_views', p,
                                                       <<vote>>, <<reply>>, <<>>)
                         IN /\ OnlyReport(again.out, p, COST_DUPLICATE_MESSAGE)
                            /\ again.blocks = blocks']_vars

\* the second of two events: a peer was charged a duplicate, so the first event
\* was that peer's accepted import of the message
DedupWitness ==
    /\ steps = 2
    /\ \E p \in Peers : OnlyReport(outbox, p, COST_DUPLICATE_MESSAGE)

AssignmentPrecedence ==
    [][\A vote \in Votes :
         (/\ vote.block_hash \in DOMAIN blocks
          /\ AssignmentFp(vote.block_hash, vote.candidate_index, vote.validator)
                \notin blocks[vote.block_hash].knowledge)
         => /\ DistributeApproval(vote)
               => blocks'[vote.block_hash].candidates = blocks[vote.block_hash].candidates
            /\ \A p \in Peers : \A reply \in ApprovalReplies :
                 PeerApprovals(p, <<vote>>, <<reply>>)
                 => /\ OnlyReport(outbox', p, COST_UNEXPECTED_MESSAGE)
                    /\ blocks' = blocks]_vars

\* every block is tracked with its candidate and without the assignment, and
\* the last event got a peer the cost alone: it was an approval of that peer
AssignmentPrecedenceWitness ==
    /\ \E p \in Peers : OnlyReport(outbox, p, COST_UNEXPECTED_MESSAGE)
    /\ \A h \in Hashes :
          /\ h \in DOMAIN blocks
          /\ \A c \in CandidateIndices : c \in DOMAIN blocks[h].candidates
          /\ \A c \in CandidateIndices : \A v \in Validators :
                AssignmentFp(h, c, v) \notin blocks[h].knowledge

\* C8: an Approved state implies the matching assignment fingerprint is in the
\* block's knowledge
ApprovedImpliesAssignmentKnown ==
    \A b \in DOMAIN blocks : \A c \in DOMAIN blocks[b].candidates :
        \A v \in DOMAIN ApprovalsOf(blocks[b], c) :
            ApprovalsOf(blocks[b], c)[v].tag = "Approved"
            => AssignmentFp(b, c, v) \in blocks[b].knowledge

ApprovedWitness ==
    \E b \in DOMAIN blocks : \E c \in DOMAIN blocks[b].candidates :
        \E v \in DOMAIN ApprovalsOf(blocks[b], c) :
            ApprovalsOf(blocks[b], c)[v].tag = "Approved"

\* the batches the specification expects of a unification over to_send
ExpectedAssignments(entries, to_send) ==
    UNION { UNION { { [block_hash |-> b, validator |-> v,
                       cert |-> ApprovalsOf(entries[b], c)[v].cert,
                       candidate_index |-> c]
                      : v \in DOMAIN ApprovalsOf(entries[b], c) }
                    : c \in DOMAIN entries[b].candidates }
            : b \in to_send }

ExpectedApprovals(entries, to_send) ==
    UNION { UNION { { [block_hash |-> b, candidate_index |-> c, validator |-> v,
                       signature |-> ApprovalsOf(entries[b], c)[v].signature]
                      : v \in { w \in DOMAIN ApprovalsOf(entries[b], c) :
                                  ApprovalsOf(entries[b], c)[w].tag = "Approved" } }
                    : c \in DOMAIN entries[b].candidates }
            : b \in to_send }

AssignmentsSent(out) ==
    UNION {out[i].assignments : i \in {j \in 1..Len(out) : IsSend(out[j])}}
ApprovalsSent(out) ==
    UNION {out[i].approvals : i \in {j \in 1..Len(out) : IsSend(out[j])}}

NoFinalizedBlockTracked ==
    \A b \in DOMAIN blocks : \A f \in ourFinalized : blocks[b].number > f

----------------------------------------------------------------------------
\* C11: right after OurViewChange with finalized_number F no tracked block
\* has a number <= F, the index has only keys > F, every entry with a
\* number > F is the entry it was, peer_views is unchanged and nothing is
\* sent.
PruningPostcondition ==
    [][last' = "OurViewChange"
       => \A F \in ourFinalized' :
             /\ \A b \in DOMAIN blocks' : blocks'[b].number > F
             /\ \A n \in DOMAIN blocks_by_number' : n > F
             /\ \A b \in DOMAIN blocks :
                   blocks[b].number > F
                   => b \in DOMAIN blocks' /\ blocks'[b] = blocks[b]
             /\ peer_views' = peer_views
             /\ outbox' = <<>>]_vars

\* OurViewChange with finalized_number 1 was handled and left the block of
\* number 2, which a peer knows, in place
PruningWitness ==
    /\ last = "OurViewChange"
    /\ ourFinalized = {1}
    /\ "h2" \in DOMAIN blocks
    /\ DOMAIN blocks["h2"].known_by # {}
    /\ "h1" \notin DOMAIN blocks

\* C12: a hash is listed under the number n exactly when it is tracked with
\* that number, and no hash is listed twice.
IndexConsistent ==
    /\ \A n \in DOMAIN blocks_by_number :
          \A i \in 1..Len(blocks_by_number[n]) :
             /\ blocks_by_number[n][i] \in DOMAIN blocks
             /\ blocks[blocks_by_number[n][i]].number = n
    /\ \A h \in DOMAIN blocks :
          /\ blocks[h].number \in DOMAIN blocks_by_number
          /\ \E i \in 1..Len(blocks_by_number[blocks[h].number]) :
                blocks_by_number[blocks[h].number][i] = h
    /\ \A n \in DOMAIN blocks_by_number, m \in DOMAIN blocks_by_number :
          \A i \in 1..Len(blocks_by_number[n]), j \in 1..Len(blocks_by_number[m]) :
             blocks_by_number[n][i] = blocks_by_number[m][j] => n = m /\ i = j

\* a NewBlocks batch whose header lookup failed for one hash while another
\* block is tracked
IndexWitness ==
    /\ last = "NewBlocks"
    /\ \E h \in Hashes :
          /\ h \notin DOMAIN blocks
          /\ \E i \in 1..Len(outbox) : outbox[i] = BlockHeaderRequest(h)
    /\ DOMAIN blocks # {}

----------------------------------------------------------------------------
NumReports(out) ==
    Cardinality({i \in 1..Len(out) : out[i].type = "ReportPeer"})

Asks(out, request) == \E i \in 1..Len(out) : out[i] = request

\* the engine state is the one before the event
StateUnchanged ==
    /\ blocks' = blocks
    /\ blocks_by_number' = blocks_by_number
    /\ peer_views' = peer_views

\* the messages of a peer message that reached the validation and got no
\* reply: the request, after the cost of a peer without a known_by entry
DroppedOutbox(p, b, request) ==
    IF p \in DOMAIN blocks[b].known_by
    THEN <<request>>
    ELSE <<ReportPeer(p, COST_UNEXPECTED_MESSAGE), request>>

\* C13 as stated: a peer message that reached the validation and whose
\* reply channel was dropped emits no ReportPeer at all and no
\* SendValidationMessage, leaves the state unchanged and the loop running.
CollaboratorDownSilent ==
    [][/\ last' = "PeerAssignments"
          => \A p \in Peers, a \in Assignments :
                (/\ Asks(outbox', CheckAndImportAssignment(a))
                 /\ PeerAssignments(p, <<a>>, <<"Dropped">>))
                => /\ NumReports(outbox') = 0
                   /\ NumSends(outbox') = 0
                   /\ StateUnchanged
                   /\ running'
       /\ last' = "PeerApprovals"
          => \A p \in Peers, vote \in Votes :
                (/\ Asks(outbox', CheckAndImportApproval(vote))
                 /\ PeerApprovals(p, <<vote>>, <<"Dropped">>))
                => /\ NumReports(outbox') = 0
                   /\ NumSends(outbox') = 0
                   /\ StateUnchanged
                   /\ running']_vars

\* C13, amended: such a message emits no ReportPeer when the peer had a
\* known_by entry for the block, and only the COST_UNEXPECTED_MESSAGE that
\* precedes the validation request when it had none; it emits no
\* SendValidationMessage, leaves the state unchanged and the loop running.
CollaboratorDown ==
    [][/\ last' = "PeerAssignments"
          => \A p \in Peers, a \in Assignments :
                (/\ Asks(outbox', CheckAndImportAssignment(a))
                 /\ PeerAssignments(p, <<a>>, <<"Dropped">>))
                => /\ outbox' = DroppedOutbox(p, a.block_hash,
                                              CheckAndImportAssignment(a))
                   /\ StateUnchanged
                   /\ running'
       /\ last' = "PeerApprovals"
          => \A p \in Peers, vote \in Votes :
                (/\ Asks(outbox', CheckAndImportApproval(vote))
                 /\ PeerApprovals(p, <<vote>>, <<"Dropped">>))
                => /\ outbox' = DroppedOutbox(p, vote.block_hash,
                                              CheckAndImportApproval(vote))
                   /\ StateUnchanged
                   /\ running']_vars

\* an approval of a peer was sent to the validation and nothing came back:
\* the request is all the engine emitted
CollaboratorDownWitness ==
    /\ last = "PeerApprovals"
    /\ running
    /\ \E vote \in Votes : outbox = <<CheckAndImportApproval(vote)>>

----------------------------------------------------------------------------
\* candidates[c] is absent for the block b, tracked or not
CandidateAbsent(b, c) ==
    b \in DOMAIN blocks => c \notin DOMAIN blocks[b].candidates

\* C14: a locally sourced message for an untracked block, and an assignment
\* or approval of any source that reaches the candidate-state update while
\* candidates[C] is absent for its block, changes no knowledge, known_by or
\* candidates and emits no SendValidationMessage.
AbsentChangesNothing ==
    [][/\ last' = "DistributeAssignment"
          => \A a \in Assignments :
                (/\ DistributeAssignment(a)
                 /\ CandidateAbsent(a.block_hash, a.candidate_index))
                => blocks' = blocks /\ NumSends(outbox') = 0
       /\ last' = "DistributeApproval"
          => \A vote \in Votes :
                (/\ DistributeApproval(vote)
                 /\ CandidateAbsent(vote.block_hash, vote.candidate_index))
                => blocks' = blocks /\ NumSends(outbox') = 0
       /\ last' = "PeerAssignments"
          => \A p \in Peers, a \in Assignments :
             \A reply \in {"Accepted", "AcceptedDuplicate"} :
                (/\ Asks(outbox', CheckAndImportAssignment(a))
                 /\ PeerAssignments(p, <<a>>, <<reply>>)
                 /\ CandidateAbsent(a.block_hash, a.candidate_index))
                => blocks' = blocks /\ NumSends(outbox') = 0
       /\ last' = "PeerApprovals"
          => \A p \in Peers, vote \in Votes :
                (/\ Asks(outbox', CheckAndImportApproval(vote))
                 /\ PeerApprovals(p, <<vote>>, <<"Accepted">>)
                 /\ CandidateAbsent(vote.block_hash, vote.candidate_index))
                => blocks' = blocks /\ NumSends(outbox') = 0]_vars

----------------------------------------------------------------------------
\* C15: right after PeerDisconnected(p), peer_views has no entry for p and
\* no tracked block has p in known_by; knowledge, candidates, the entries of
\* the other peers and the index are unchanged and nothing is sent.
DisconnectForgetsPeer ==
    [][last' = "PeerDisconnected"
       => \A p \in Peers :
             PeerDisconnected(p)
             => /\ p \notin DOMAIN peer_views'
                /\ \A b \in DOMAIN blocks' : p \notin DOMAIN blocks'[b].known_by
                /\ DOMAIN blocks' = DOMAIN blocks
                /\ \A b \in DOMAIN blocks :
                      /\ blocks'[b].knowledge = blocks[b].knowledge
                      /\ blocks'[b].candidates = blocks[b].candidates
                      /\ blocks'[b].number = blocks[b].number
                      /\ blocks'[b].parent_hash = blocks[b].parent_hash
                      /\ DOMAIN blocks'[b].known_by = DOMAIN blocks[b].known_by \ {p}
                      /\ \A q \in DOMAIN blocks'[b].known_by :
                            blocks'[b].known_by[q] = blocks[b].known_by[q]
                /\ DOMAIN peer_views' = DOMAIN peer_views \ {p}
                /\ \A q \in DOMAIN peer_views' : peer_views'[q] = peer_views[q]
                /\ blocks_by_number' = blocks_by_number
                /\ outbox' = <<>>]_vars

\* a peer whose message was recorded has been disconnected: the knowledge
\* keeps the fingerprint, the peer has no known_by entry and no view
DisconnectWitness ==
    /\ last = "PeerDisconnected"
    /\ \E pf \in received :
          /\ pf[1] \notin DOMAIN peer_views
          /\ pf[2][2] \in DOMAIN blocks
          /\ pf[2] \in blocks[pf[2][2]].knowledge
          /\ pf[1] \notin DOMAIN blocks[pf[2][2]].known_by

----------------------------------------------------------------------------
\* C16: Conclude, or the inbound channel closing, ends the loop, and no
\* event is handled after it: nothing changes and nothing is sent.
\* ActiveLeaves and
\* BlockFinalized leave the state unchanged, send nothing and leave the
\* loop running.
ShutdownIsFinal ==
    [][/\ last \notin {"Conclude", "ChannelClosed"}
       /\ last' \in {"Conclude", "ChannelClosed"} => ~running'
       /\ last' \in {"ActiveLeaves", "BlockFinalized"}
          => StateUnchanged /\ outbox' = <<>> /\ running']_vars

\* the loop returned while blocks were tracked and further events could
\* have been handled
ShutdownWitness ==
    /\ last \in {"Conclude", "ChannelClosed"}
    /\ ~running
    /\ steps < MaxSteps
    /\ DOMAIN blocks # {}

----------------------------------------------------------------------------
\* C17: a peer is charged COST_DUPLICATE_MESSAGE for a message only if the
\* peer itself sent a message of that fingerprint before; what the engine
\* sent to the peer, or marked as known by it, does not count.
DuplicateOnlyForOwnMessage ==
    [][/\ last' = "PeerAssignments"
          => \A p \in Peers, a \in Assignments :
                (/\ outbox' = <<ReportPeer(p, COST_DUPLICATE_MESSAGE)>>
                 /\ PeerAssignments(p, <<a>>, <<"Dropped">>))
                => <<p, FpOfAssignment(a)>> \in received
       /\ last' = "PeerApprovals"
          => \A p \in Peers, vote \in Votes :
                (/\ outbox' = <<ReportPeer(p, COST_DUPLICATE_MESSAGE)>>
                 /\ PeerApprovals(p, <<vote>>, <<"Dropped">>))
                => <<p, FpOfVote(vote)>> \in received]_vars

----------------------------------------------------------------------------
\* C18: if a tracked block has a known_by entry for a connected peer and its
\* parent is tracked with a number >= the finalized_number of the peer, the
\* parent has a known_by entry for that peer too.
AncestorChain ==
    \A b \in DOMAIN blocks : \A p \in DOMAIN peer_views :
       (/\ p \in DOMAIN blocks[b].known_by
        /\ blocks[b].parent_hash \in DOMAIN blocks
        /\ blocks[blocks[b].parent_hash].number >= peer_views[p].finalized_number)
       => p \in DOMAIN blocks[blocks[b].parent_hash].known_by

----------------------------------------------------------------------------
\* the message `send` is the only SendValidationMessage of the event, goes
\* to the connected peers other than the source, and the fingerprint is in
\* the knowledge of block b and known by every recipient and by the source
Circulated(source, send, fingerprint, b) ==
    /\ NumSends(outbox') = 1
    /\ \E i \in 1..Len(outbox') : outbox'[i] = send
    /\ send.peers = DOMAIN peer_views \ {source}
    /\ b \in DOMAIN blocks'
    /\ fingerprint \in blocks'[b].knowledge
    /\ \A r \in send.peers \cup ({source} \cap Peers) :
          /\ r \in DOMAIN blocks'[b].known_by
          /\ fingerprint \in blocks'[b].known_by[r]

\* a peer message that the validation accepted is circulated
PeerCirculation ==
    /\ last' = "PeerAssignments"
       => \A p \in Peers, a \in Assignments :
          \A reply \in {"Accepted", "AcceptedDuplicate"} :
             (/\ Asks(outbox', CheckAndImportAssignment(a))
              /\ PeerAssignments(p, <<a>>, <<reply>>))
             => Circulated(p, SendAssignments(DOMAIN peer_views \ {p}, {a}),
                           FpOfAssignment(a), a.block_hash)
    /\ last' = "PeerApprovals"
       => \A p \in Peers, vote \in Votes :
             (/\ Asks(outbox', CheckAndImportApproval(vote))
              /\ PeerApprovals(p, <<vote>>, <<"Accepted">>))
             => Circulated(p, SendApprovals(DOMAIN peer_views \ {p}, {vote}),
                           FpOfVote(vote), vote.block_hash)

\* C19 as stated: every assignment or approval that a peer sent and the
\* validation accepted, and every locally sourced one, is circulated: one
\* SendValidationMessage with that message alone to the connected peers
\* other than the source, and the fingerprint recorded in the knowledge and
\* for the recipients and the source.
CirculatesEveryLocal ==
    [][/\ PeerCirculation
       /\ last' = "DistributeAssignment"
          => \A a \in Assignments :
                DistributeAssignment(a)
                => Circulated(Local, SendAssignments(DOMAIN peer_views, {a}),
                              FpOfAssignment(a), a.block_hash)
       /\ last' = "DistributeApproval"
          => \A vote \in Votes :
                DistributeApproval(vote)
                => Circulated(Local, SendApprovals(DOMAIN peer_views, {vote}),
                              FpOfVote(vote), vote.block_hash)]_vars

\* C19, amended: the same, for a locally sourced message only when its
\* block is tracked and, for an approval, the block has the candidate.
CirculatesAccepted ==
    [][/\ PeerCirculation
       /\ last' = "DistributeAssignment"
          => \A a \in Assignments :
                (/\ DistributeAssignment(a)
                 /\ a.block_hash \in DOMAIN blocks)
                => Circulated(Local, SendAssignments(DOMAIN peer_views, {a}),
                              FpOfAssignment(a), a.block_hash)
       /\ last' = "DistributeApproval"
          => \A vote \in Votes :
                (/\ DistributeApproval(vote)
                 /\ vote.block_hash \in DOMAIN blocks
                 /\ vote.candidate_index \in DOMAIN blocks[vote.block_hash].candidates)
                => Circulated(Local, SendApprovals(DOMAIN peer_views, {vote}),
                              FpOfVote(vote), vote.block_hash)]_vars

\* an approval of a peer was accepted and sent on to a connected peer
CirculationWitness ==
    /\ last = "PeerApprovals"
    /\ \E i \in 1..Len(outbox) :
          /\ outbox[i].type = "SendValidationMessage"
          /\ outbox[i].approvals # {}
          /\ outbox[i].peers # {}

----------------------------------------------------------------------------
\* the fingerprint is in the knowledge of the tracked block b and not known
\* by the peer p
ValidatedNotKnownBy(p, b, fingerprint) ==
    /\ b \in DOMAIN blocks
    /\ fingerprint \in blocks[b].knowledge
    /\ ~(p \in DOMAIN blocks[b].known_by /\ fingerprint \in blocks[b].known_by[p])

\* the peer gets BENEFIT_VALID_MESSAGE, the fingerprint is added to its
\* known_by entry of block b, no validation is asked for, nothing is
\* circulated and nothing else changes
ShortCircuited(p, b, fingerprint) ==
    /\ Asks(outbox', ReportPeer(p, BENEFIT_VALID_MESSAGE))
    /\ \A i \in 1..Len(outbox') :
          outbox'[i].type \notin {"CheckAndImportAssignment", "CheckAndImportApproval",
                                  "SendValidationMessage"}
    /\ DOMAIN blocks' = DOMAIN blocks
    /\ \A h \in DOMAIN blocks : h # b => blocks'[h] = blocks[h]
    /\ blocks'[b].knowledge = blocks[b].knowledge
    /\ blocks'[b].candidates = blocks[b].candidates
    /\ blocks'[b].number = blocks[b].number
    /\ blocks'[b].parent_hash = blocks[b].parent_hash
    /\ DOMAIN blocks'[b].known_by = DOMAIN blocks[b].known_by \cup {p}
    /\ \A q \in DOMAIN blocks[b].known_by :
          q # p => blocks'[b].known_by[q] = blocks[b].known_by[q]
    /\ blocks'[b].known_by[p] =
          (IF p \in DOMAIN blocks[b].known_by THEN blocks[b].known_by[p] ELSE {})
          \cup {fingerprint}
    /\ blocks_by_number' = blocks_by_number
    /\ peer_views' = peer_views

\* the short-circuit for an assignment of a peer
AssignmentShortCircuit ==
    last' = "PeerAssignments"
    => \A p \in Peers, a \in Assignments :
          (/\ ValidatedNotKnownBy(p, a.block_hash, FpOfAssignment(a))
           /\ PeerAssignments(p, <<a>>, <<"Dropped">>))
          => ShortCircuited(p, a.block_hash, FpOfAssignment(a))

----------------------------------------------------------------------------
LastOf(out) == out[Len(out)]

\* C21: a peer's assignment answered Bad or TooFarInFuture, and a peer's
\* approval answered Bad, gets the peer the matching cost; no knowledge,
\* known_by or candidates changes, nothing is circulated, and the same
\* message, sent by any peer next, is sent to the validation again.
RejectedValidation ==
    [][/\ last' = "PeerAssignments"
          => \A p \in Peers, a \in Assignments :
             \A reply \in {"Bad", "TooFarInFuture"} :
                (/\ Asks(outbox', CheckAndImportAssignment(a))
                 /\ PeerAssignments(p, <<a>>, <<reply>>))
                => /\ IsReport(LastOf(outbox'), p,
                               IF reply = "Bad" THEN COST_INVALID_MESSAGE
                               ELSE COST_ASSIGNMENT_TOO_FAR_IN_THE_FUTURE)
                   /\ blocks' = blocks
                   /\ NumSends(outbox') = 0
                   /\ \A q \in Peers, again \in AssignmentReplies :
                         Asks(import_and_circulate_assignment(
                                 blocks', peer_views', q, a, again).out,
                              CheckAndImportAssignment(a))
       /\ last' = "PeerApprovals"
          => \A p \in Peers, vote \in Votes :
                (/\ Asks(outbox', CheckAndImportApproval(vote))
                 /\ PeerApprovals(p, <<vote>>, <<"Bad">>))
                => /\ IsReport(LastOf(outbox'), p, COST_INVALID_MESSAGE)
                   /\ blocks' = blocks
                   /\ NumSends(outbox') = 0
                   /\ \A q \in Peers, again \in ApprovalReplies :
                         Asks(import_and_circulate_approval(
                                 blocks', peer_views', q, vote, again).out,
                              CheckAndImportApproval(vote))]_vars

\* an approval of a peer went to the validation and came back Bad
RejectedWitness ==
    /\ last = "PeerApprovals"
    /\ \E vote \in Votes : Asks(outbox, CheckAndImportApproval(vote))
    /\ \E p \in Peers : IsReport(LastOf(outbox), p, COST_INVALID_MESSAGE)

----------------------------------------------------------------------------
\* the block b is tracked and has no known_by entry for the peer p
NoEntryFor(p, b) ==
    b \in DOMAIN blocks /\ p \notin DOMAIN blocks[b].known_by

\* the messages of an accepted message of a peer without an entry, in order
UnknownPeerOutbox(p, request, send) ==
    <<ReportPeer(p, COST_UNEXPECTED_MESSAGE), request,
      ReportPeer(p, BENEFIT_VALID_MESSAGE_FIRST), send>>

\* the fingerprint is in the knowledge of block b and known by the peer p
RecordedFor(p, b, fingerprint) ==
    /\ fingerprint \in blocks'[b].knowledge
    /\ p \in DOMAIN blocks'[b].known_by
    /\ fingerprint \in blocks'[b].known_by[p]

\* C22: a message about a tracked block from a peer that has no known_by
\* entry for it gets the peer COST_UNEXPECTED_MESSAGE first and is handled
\* on: a message not validated before goes to the validation, and when the
\* answer is Accepted the peer gets BENEFIT_VALID_MESSAGE_FIRST after the
\* cost, the message is recorded in knowledge and known_by[peer] and is
\* sent to the other connected peers.
UnknownPeerContinues ==
    [][/\ last' = "PeerAssignments"
          => \A p \in Peers, a \in Assignments :
                (/\ NoEntryFor(p, a.block_hash)
                 /\ <<p, FpOfAssignment(a)>> \in received')
                => /\ \A reply \in AssignmentReplies :
                         PeerAssignments(p, <<a>>, <<reply>>)
                         => /\ outbox' # <<>>
                            /\ IsReport(outbox'[1], p, COST_UNEXPECTED_MESSAGE)
                            /\ FpOfAssignment(a) \notin blocks[a.block_hash].knowledge
                               => Asks(outbox', CheckAndImportAssignment(a))
                   /\ (/\ Asks(outbox', CheckAndImportAssignment(a))
                       /\ PeerAssignments(p, <<a>>, <<"Accepted">>))
                      => /\ outbox' = UnknownPeerOutbox(p,
                                          CheckAndImportAssignment(a),
                                          SendAssignments(DOMAIN peer_views \ {p}, {a}))
                         /\ RecordedFor(p, a.block_hash, FpOfAssignment(a))
       /\ last' = "PeerApprovals"
          => \A p \in Peers, vote \in Votes :
                (/\ NoEntryFor(p, vote.block_hash)
                 /\ <<p, FpOfVote(vote)>> \in received')
                => /\ \A reply \in ApprovalReplies :
                         PeerApprovals(p, <<vote>>, <<reply>>)
                         => /\ outbox' # <<>>
                            /\ IsReport(outbox'[1], p, COST_UNEXPECTED_MESSAGE)
                            /\ (/\ vote.candidate_index
                                      \in DOMAIN blocks[vote.block_hash].candidates
                                /\ AssignmentFp(vote.block_hash, vote.candidate_index,
                                                vote.validator)
                                      \in blocks[vote.block_hash].knowledge
                                /\ FpOfVote(vote) \notin blocks[vote.block_hash].knowledge)
                               => Asks(outbox', CheckAndImportApproval(vote))
                   /\ (/\ Asks(outbox', CheckAndImportApproval(vote))
                       /\ PeerApprovals(p, <<vote>>, <<"Accepted">>))
                      => /\ outbox' = UnknownPeerOutbox(p,
                                          CheckAndImportApproval(vote),
                                          SendApprovals(DOMAIN peer_views \ {p}, {vote}))
                         /\ RecordedFor(p, vote.block_hash, FpOfVote(vote))]_vars

\* a peer without an entry sent an assignment that was accepted and sent on
\* to another peer
UnknownPeerWitness ==
    /\ last = "PeerAssignments"
    /\ \E p \in Peers, a \in Assignments :
          /\ DOMAIN peer_views \ {p} # {}
          /\ outbox = UnknownPeerOutbox(p, CheckAndImportAssignment(a),
                           SendAssignments(DOMAIN peer_views \ {p}, {a}))

----------------------------------------------------------------------------
----------------------------------------------------------------------------
\* C24: every fingerprint in known_by[p] of a tracked block is the
\* fingerprint of a message that p sent to us or that was sent to p in a
\* SendValidationMessage.
NoPhantomKnowledge ==
    \A b \in DOMAIN blocks : \A p \in DOMAIN blocks[b].known_by :
       \A fingerprint \in blocks[b].known_by[p] :
          <<p, fingerprint>> \in received \cup sent

====
